---------------------------- MODULE Spec2Model ----------------------------
(***************************************************************************)
(* RSA parity-oracle attack (Set6_RSA_and_DSA/challenge_46.py).            *)
(*                                                                         *)
(* decrypt_attack doubles the running ciphertext once per round, asks the  *)
(* oracle for the parity of its decryption and halves an interval of exact *)
(* fractions of n.  The model follows the function statement by statement: *)
(* one action per statement group of the loop body, with the Fraction      *)
(* arithmetic of the fractions module (normalised numerator/denominator)   *)
(* and textbook RSA for the key held by the Oracle.                        *)
(***************************************************************************)
EXTENDS Integers, Sequences, FiniteSets, TLC

VARIABLES
    rsa,        \* oracle.rsa: the key held by the Oracle, [n, e, d]
    oracleKind, \* "rsa": Oracle.validate_msg; "double": a stand-in answering freely
    m,          \* the plaintext integer main() encrypted
    cipher,     \* decrypt_attack: cipher
    low_frac,   \* decrypt_attack: low_frac   (a Fraction)
    high_frac,  \* decrypt_attack: high_frac  (a Fraction)
    low,        \* decrypt_attack: low        (n * low_frac)
    high,       \* decrypt_attack: high       (n * high_frac)
    i,          \* decrypt_attack: loop index
    res,        \* decrypt_attack: res, the last oracle answer
    msg,        \* decrypt_attack: msg, the last candidate (bytes)
    out,        \* the lines printed so far, as <<i, msg>>
    ret,        \* <<>> while nothing was returned, <<msg>> after the return
    queries,    \* number of calls of oracle.validate_msg made so far
    failed,     \* TRUE once the decrypt primitive has raised
    pc          \* position in decrypt_attack

vars == <<rsa, oracleKind, m, cipher, low_frac, high_frac, low, high, i, res,
          msg, out, ret, queries, failed, pc>>

-----------------------------------------------------------------------------
(* Bounds of the model *)

MaxPrime == 11
MaxExp == 7

-----------------------------------------------------------------------------
(* Integer helpers *)

\* math.gcd, Euclid's algorithm
GCD(a, b) ==
    LET euclid[x \in Nat, y \in Nat] == IF y = 0 THEN x ELSE euclid[y, x % y]
    IN euclid[a, b]

Abs(x) == IF x < 0 THEN -x ELSE x

RECURSIVE Pow2(_)
Pow2(k) == IF k = 0 THEN 1 ELSE 2 * Pow2(k - 1)

\* int.bit_length()
RECURSIVE BitLength(_)
BitLength(x) == IF x = 0 THEN 0 ELSE 1 + BitLength(x \div 2)

\* pow(b, x, modulus)
RECURSIVE ModExp(_, _, _)
ModExp(b, x, modulus) ==
    IF x = 0 THEN 1 % modulus
    ELSE IF x % 2 = 1 THEN (b * ModExp(b, x - 1, modulus)) % modulus
    ELSE LET h == ModExp(b, x \div 2, modulus) IN (h * h) % modulus

-----------------------------------------------------------------------------
(* fractions.Fraction: a normalised pair, denominator > 0 *)

Fraction(a, b) ==
    LET g == GCD(Abs(a), b) IN [num |-> a \div g, den |-> b \div g]

FracSub(x, y) == Fraction(x.num * y.den - y.num * x.den, x.den * y.den)
FracAdd(x, y) == Fraction(x.num * y.den + y.num * x.den, x.den * y.den)
FracDivInt(x, k) == Fraction(x.num, x.den * k)
IntMulFrac(k, x) == Fraction(k * x.num, x.den)
FracLe(x, y) == x.num * y.den <= y.num * x.den
FracLt(x, y) == x.num * y.den < y.num * x.den

\* math.floor
Floor(x) == x.num \div x.den

-----------------------------------------------------------------------------
(* Utils.PublicKey.RSA: key generation, encrypt, decrypt, byte conversion *)

IsPrime(x) == x > 1 /\ \A y \in 2..(x - 1) : x % y # 0

OddPrimes == {x \in 3..MaxPrime : IsPrime(x)}

Inverse(a, phi) == CHOOSE x \in 1..(phi - 1) : (a * x) % phi = 1

\* the keys RSA(bits) can produce: n = p*q for distinct odd primes
Keys ==
    UNION { LET phi == (p - 1) * (q - 1) IN
            { [n |-> p * q, e |-> x, d |-> Inverse(x, phi)] :
                x \in {y \in 3..MaxExp : GCD(y, phi) = 1} } :
            <<p, q>> \in {pq \in OddPrimes \X OddPrimes : pq[1] < pq[2]} }

encrypt(x) == ModExp(x, rsa.e, rsa.n)
decrypt(c) == ModExp(c, rsa.d, rsa.n)

RECURSIVE integer_to_bytes_squeezed(_)
integer_to_bytes_squeezed(x) ==
    IF x = 0 THEN <<>>
    ELSE Append(integer_to_bytes_squeezed(x \div 256), x % 256)

-----------------------------------------------------------------------------
(* Oracle.validate_msg *)

validate_msg_inverted(c) == decrypt(c) % 2 = 1

validate_msg(c) == decrypt(c) % 2 = 0

-----------------------------------------------------------------------------
(* decrypt_attack *)

n == rsa.n

num_repetitions_short == BitLength(n) - 1

num_repetitions == BitLength(n)

LoopContinues_offbyone == i <= num_repetitions

\* for i in range(num_repetitions)
LoopContinues == i < num_repetitions

DoubleCipher_plain(c) == (c * 2) % n

\* cipher = (cipher * oracle.rsa.encrypt(2, input_bytes=False)) % n
DoubleCipher(c) == (c * encrypt(2)) % n

Mid_nooffset(lo, hi) == FracDivInt(FracSub(hi, lo), 2)

Mid_plus(lo, hi) == FracAdd(FracDivInt(FracAdd(hi, lo), 2), lo)

\* (high_frac - low_frac) / 2 + low_frac
Mid(lo, hi) == FracAdd(FracDivInt(FracSub(hi, lo), 2), lo)

\* RSA.integer_to_bytes_squeezed(math.floor(high))
Candidate(h) == integer_to_bytes_squeezed(Floor(h))

\* main, lines 97-104, and decrypt_attack up to the loop, lines 68-72; the
\* ints 0 and n of line 70 are held as the fractions 0/1 and n/1
Init ==
    /\ rsa \in Keys
    /\ oracleKind \in {"rsa", "double"}
    /\ m \in 0..(rsa.n - 1)
    /\ cipher = encrypt(m)
    /\ low_frac = Fraction(0, 1)
    /\ high_frac = Fraction(1, 1)
    /\ low = Fraction(0, 1)
    /\ high = Fraction(rsa.n, 1)
    /\ i = 0
    /\ res = FALSE
    /\ msg = <<>>
    /\ out = <<>>
    /\ ret = <<>>
    /\ queries = 0
    /\ failed = FALSE
    /\ pc = "loop"

\* line 75
Double ==
    /\ pc = "loop"
    /\ LoopContinues
    /\ cipher' = DoubleCipher(cipher)
    /\ pc' = "query"
    /\ UNCHANGED <<rsa, oracleKind, m, low_frac, high_frac, low, high, i, res,
                   msg, out, ret, queries, failed>>

\* line 78, the oracle answers
QueryOk ==
    /\ pc = "query"
    /\ \E b \in BOOLEAN :
          /\ oracleKind = "rsa" => b = validate_msg(cipher)
          /\ res' = b
    /\ queries' = queries + 1
    /\ pc' = "halve"
    /\ UNCHANGED <<rsa, oracleKind, m, cipher, low_frac, high_frac, low, high,
                   i, msg, out, ret, failed>>

QueryFail_swallow ==
    /\ pc = "query"
    /\ queries' = queries + 1
    /\ failed' = TRUE
    /\ res' = FALSE
    /\ pc' = "halve"
    /\ UNCHANGED <<rsa, oracleKind, m, cipher, low_frac, high_frac, low, high,
                   i, msg, out, ret>>

\* line 78, the decrypt primitive raises: nothing in validate_msg or
\* decrypt_attack catches it
QueryFail ==
    /\ pc = "query"
    /\ queries' = queries + 1
    /\ failed' = TRUE
    /\ pc' = "raised"
    /\ UNCHANGED <<rsa, oracleKind, m, cipher, low_frac, high_frac, low, high,
                   i, res, msg, out, ret>>

HalveHigh_movesLow ==
    /\ pc = "halve"
    /\ res
    /\ low_frac' = Mid(low_frac, high_frac)
    /\ low' = IntMulFrac(n, low_frac')
    /\ pc' = "emit"
    /\ UNCHANGED <<rsa, oracleKind, m, cipher, high_frac, high, i, res, msg,
                   out, ret, queries, failed>>

HalveHigh_stale ==
    /\ pc = "halve"
    /\ res
    /\ high_frac' = Mid(low_frac, high_frac)
    /\ pc' = "emit"
    /\ UNCHANGED <<rsa, oracleKind, m, cipher, low_frac, low, high, i, res, msg,
                   out, ret, queries, failed>>

\* lines 81-83
HalveHigh ==
    /\ pc = "halve"
    /\ res
    /\ high_frac' = Mid(low_frac, high_frac)
    /\ high' = IntMulFrac(n, high_frac')
    /\ pc' = "emit"
    /\ UNCHANGED <<rsa, oracleKind, m, cipher, low_frac, low, i, res, msg,
                   out, ret, queries, failed>>

HalveLow_movesHigh ==
    /\ pc = "halve"
    /\ ~res
    /\ high_frac' = Mid(low_frac, high_frac)
    /\ high' = IntMulFrac(n, high_frac')
    /\ pc' = "emit"
    /\ UNCHANGED <<rsa, oracleKind, m, cipher, low_frac, low, i, res, msg,
                   out, ret, queries, failed>>

\* lines 86-88
HalveLow ==
    /\ pc = "halve"
    /\ ~res
    /\ low_frac' = Mid(low_frac, high_frac)
    /\ low' = IntMulFrac(n, low_frac')
    /\ pc' = "emit"
    /\ UNCHANGED <<rsa, oracleKind, m, cipher, high_frac, high, i, res, msg,
                   out, ret, queries, failed>>

\* lines 90-91, and the loop index moves on
Emit ==
    /\ pc = "emit"
    /\ msg' = Candidate(high)
    /\ out' = Append(out, <<i, msg'>>)
    /\ i' = i + 1
    /\ pc' = "loop"
    /\ UNCHANGED <<rsa, oracleKind, m, cipher, low_frac, high_frac, low, high,
                   res, ret, queries, failed>>

\* line 93
Return ==
    /\ pc = "loop"
    /\ ~LoopContinues
    /\ ret' = <<msg>>
    /\ pc' = "done"
    /\ UNCHANGED <<rsa, oracleKind, m, cipher, low_frac, high_frac, low, high,
                   i, res, msg, out, queries, failed>>

Next ==
    \/ Double
    \/ QueryOk
    \/ QueryFail
    \/ HalveHigh
    \/ HalveLow
    \/ Emit
    \/ Return

Spec == Init /\ [][Next]_vars

\* the program is sequential and keeps running until it returns or raises
LiveSpec == Spec /\ WF_vars(Next)

-----------------------------------------------------------------------------
(* Helpers of the properties *)

RECURSIVE BytesToInt(_)
BytesToInt(b) ==
    IF Len(b) = 0 THEN 0
    ELSE 256 * BytesToInt(SubSeq(b, 1, Len(b) - 1)) + b[Len(b)]

Running == pc \in {"loop", "query", "halve", "emit"}

Width == FracSub(high_frac, low_frac)

-----------------------------------------------------------------------------
\* C1: against the RSA-backed oracle, once decrypt_attack has returned after
\* bitLength(n) rounds, floor(high_frac * n) equals the plaintext m, and the
\* returned bytes are the bytes of m.
C1_Convergence ==
    (oracleKind = "rsa" /\ pc = "done") =>
        /\ Floor(IntMulFrac(n, high_frac)) = m
        /\ Floor(high) = m
        /\ ret = <<integer_to_bytes_squeezed(m)>>

C1_Witness ==
    /\ oracleKind = "rsa"
    /\ pc = "done"
    /\ m > n \div 2
    /\ GCD(m, n) > 1
    /\ ret = <<integer_to_bytes_squeezed(m)>>

\* C2: in every state of decrypt_attack, whatever the oracle answered,
\* 0 <= low_frac <= high_frac <= 1 as exact fractions.
C2_IntervalBound ==
    /\ FracLe(Fraction(0, 1), low_frac)
    /\ FracLe(low_frac, high_frac)
    /\ FracLe(high_frac, Fraction(1, 1))

C2_Witness ==
    /\ oracleKind = "double"
    /\ pc = "done"
    /\ FracLt(Fraction(0, 1), low_frac)
    /\ FracLt(high_frac, Fraction(1, 1))

\* C3: the interval update of round i halves high_frac - low_frac exactly,
\* leaving it 1/2^(i+1); it never lowers low_frac nor raises high_frac; and
\* no other step touches the interval.
C3_IntervalMonotonicity ==
    [][ IF pc = "halve"
        THEN /\ Width' = FracDivInt(Width, 2)
             /\ Width' = Fraction(1, Pow2(i + 1))
             /\ FracLe(low_frac, low_frac')
             /\ FracLe(high_frac', high_frac)
        ELSE UNCHANGED <<low_frac, high_frac>> ]_vars

C3_Witness ==
    /\ oracleKind = "double"
    /\ pc = "done"
    /\ Width = Fraction(1, Pow2(num_repetitions))
    /\ FracLt(Fraction(0, 1), low_frac)
    /\ FracLt(high_frac, Fraction(1, 1))

\* C4: with the RSA-backed oracle, the answer obtained in round i is TRUE
\* exactly when (2^(i+1) * m) mod n is even.
C4_ParityConsistency ==
    (oracleKind = "rsa" /\ pc = "halve") =>
        (res <=> ((Pow2(i + 1) * m) % n) % 2 = 0)

C4_Witness ==
    /\ oracleKind = "rsa"
    /\ pc = "halve"
    /\ i = num_repetitions - 1
    /\ ~res
    /\ (Pow2(i + 1) * m) % n # (2 * m) % n

\* C5: while the oracle does not fail, decrypt_attack has made exactly one
\* query per round entered, never enters more than bitLength(n) rounds,
\* always has a next step until it returns, returns only after exactly
\* bitLength(n) rounds and queries, and does return.
C5_RoundCountInv ==
    /\ i <= num_repetitions
    /\ ~failed =>
         /\ queries = (IF pc \in {"halve", "emit"} THEN i + 1 ELSE i)
         /\ Len(out) = i
         /\ pc # "raised"
         /\ Running => ENABLED Next
    /\ pc = "done" =>
         /\ i = num_repetitions
         /\ queries = num_repetitions
         /\ Len(out) = num_repetitions

C5_RoundCount == []C5_RoundCountInv /\ <>(pc = "done" \/ failed)

C5_Witness ==
    /\ oracleKind = "double"
    /\ pc = "done"
    /\ ~failed
    /\ queries = BitLength(n)
    /\ Len(out) = queries
    /\ FracLt(Fraction(0, 1), low_frac)

\* C6: with the RSA-backed oracle, the distance between the emitted
\* candidate and m never grows from one round to the next, and it is 0 for
\* the candidate of the last round.
C6_MonotoneCandidate ==
    oracleKind = "rsa" =>
        /\ \A j \in 1..(Len(out) - 1) :
              Abs(BytesToInt(out[j + 1][2]) - m) <= Abs(BytesToInt(out[j][2]) - m)
        /\ pc = "done" => BytesToInt(out[Len(out)][2]) = m

C6_Witness ==
    /\ oracleKind = "rsa"
    /\ pc = "done"
    /\ \E j \in 1..(Len(out) - 1) :
          /\ j > 1
          /\ Abs(BytesToInt(out[j + 1][2]) - m) < Abs(BytesToInt(out[j][2]) - m)
    /\ BytesToInt(out[Len(out)][2]) = m

\* C7: a failure of the decrypt primitive during the query of round i ends
\* decrypt_attack: the failing step changes neither the interval, nor the
\* lines printed, nor the round index, nothing is returned, and no step
\* (so no round and no query) follows it.
C7_OracleFailure ==
    [][ /\ ~failed
        /\ failed' =>
             /\ pc' = "raised"
             /\ ret' = <<>>
             /\ queries' = i + 1
             /\ Len(out') = i
             /\ UNCHANGED <<low_frac, high_frac, low, high, out, ret, i, msg>> ]_vars

C7_Witness ==
    /\ failed
    /\ pc = "raised"
    /\ i > 1
    /\ Len(out) = i
    /\ ret = <<>>

\* C8: in the interval update of a round exactly one bound moves: high_frac
\* becomes low_frac + (high_frac - low_frac)/2 after an even answer, low_frac
\* becomes that value after an odd answer, and the other bound stays.
C8_HalvingRule ==
    [][ pc = "halve" =>
          LET half == FracAdd(low_frac, FracDivInt(FracSub(high_frac, low_frac), 2)) IN
          IF res
          THEN high_frac' = half /\ high_frac' # high_frac /\ low_frac' = low_frac
          ELSE low_frac' = half /\ low_frac' # low_frac /\ high_frac' = high_frac ]_vars

C8_Witness ==
    /\ oracleKind = "double"
    /\ pc = "emit"
    /\ i > 1
    /\ res
    /\ FracLt(Fraction(0, 1), low_frac)
    /\ FracLt(high_frac, Fraction(1, 1))

\* C9: with the RSA-backed oracle, low_frac * n <= m < high_frac * n in
\* every state of decrypt_attack.
C9_Containment ==
    oracleKind = "rsa" =>
        /\ low_frac.num * n <= m * low_frac.den
        /\ m * high_frac.den < high_frac.num * n

C9_Witness ==
    /\ oracleKind = "rsa"
    /\ pc = "done"
    /\ m > 0
    /\ low_frac.num * n < m * low_frac.den
    /\ FracLt(high_frac, Fraction(1, 1))

\* C10: high changes only in the update after an even answer and low only
\* in the update after an odd answer; all the same, whenever a candidate is
\* emitted, high = n * high_frac and low = n * low_frac; the line printed in
\* round i carries i and the bytes of floor(n * high_frac) for the interval
\* after that round's update; and the value returned is the candidate of the
\* last round.
C10_CachedBoundInv ==
    /\ pc = "emit" =>
         /\ high = IntMulFrac(n, high_frac)
         /\ low = IntMulFrac(n, low_frac)
    /\ (pc \in {"loop", "done"} /\ Len(out) > 0) =>
         out[Len(out)] =
            <<i - 1, integer_to_bytes_squeezed(Floor(IntMulFrac(n, high_frac)))>>
    /\ pc = "done" => ret = <<out[Len(out)][2]>>

C10_CachedBound ==
    /\ []C10_CachedBoundInv
    /\ [][ /\ high' # high => (pc = "halve" /\ res)
           /\ low' # low => (pc = "halve" /\ ~res) ]_vars

C10_Witness ==
    /\ oracleKind = "double"
    /\ pc = "loop"
    /\ i > 1
    /\ ~res
    /\ high = IntMulFrac(n, high_frac)
    /\ FracLt(high_frac, Fraction(1, 1))
    /\ out[Len(out)] = <<i - 1, Candidate(high)>>

=============================================================================
